---------------------------- MODULE Spec2Model ----------------------------
(***************************************************************************)
(* carbon_easy_builder: atom clusters (graphene sheets, armchair carbon    *)
(* nanotubes) held by periodic boxes.                                       *)
(*                                                                          *)
(* Lengths are fixed-point integers in units of 0.01 Angstrom: the default  *)
(* bond length 1.42 is 142, the neighbour cut-off 1.5 is 150, the axial     *)
(* tolerance 0.01 is 1.  sqrt(3)*1.42 = 2.4595... is 246 and its half 123.  *)
(* Comparisons of distances are made on squares, and comparisons of         *)
(* quotients by cross-multiplication (FracLeq), so no square root and no    *)
(* division of lengths is taken anywhere.                                   *)
(***************************************************************************)
EXTENDS Integers, Sequences, FiniteSets, TLC

VARIABLES cl, boxes, last, steps

vars == <<cl, boxes, last, steps>>

(***************************************************************************)
(* Bounds of the model.                                                     *)
(***************************************************************************)
MaxSteps == 3
MaxBoxes == 2
MaxSeam == 1

(***************************************************************************)
(* Program constants, in units of 0.01 Angstrom.                            *)
(***************************************************************************)
BondLength == 142
BondCutoff == 150
AxialTol == 1
TubeVacuum == 3000

(***************************************************************************)
(* Integer and vector helpers (numpy arithmetic on (N,3) arrays).           *)
(***************************************************************************)
Abs(x) == IF x < 0 THEN -x ELSE x

Sgn(x) == IF x < 0 THEN -1 ELSE IF x > 0 THEN 1 ELSE 0

\* a / b rounded to the nearest grid value (b > 0)
RoundDiv(a, b) == (2 * a + b) \div (2 * b)

VAdd(p, q) == <<p[1] + q[1], p[2] + q[2], p[3] + q[3]>>

VSub(p, q) == <<p[1] - q[1], p[2] - q[2], p[3] - q[3]>>

VScale(k, p) == <<k * p[1], k * p[2], k * p[3]>>

Dot(p, q) == p[1] * q[1] + p[2] * q[2] + p[3] * q[3]

Cross(p, q) == <<p[2] * q[3] - p[3] * q[2],
                 p[3] * q[1] - p[1] * q[3],
                 p[1] * q[2] - p[2] * q[1]>>

Norm2(p) == Dot(p, p)

RECURSIVE SumSeq(_)
SumSeq(s) == IF s = <<>> THEN 0 ELSE Head(s) + SumSeq(Tail(s))

Column(ps, k) == [i \in 1..Len(ps) |-> ps[i][k]]

MinOf(s) == CHOOSE x \in {s[i] : i \in 1..Len(s)} :
              \A y \in {s[i] : i \in 1..Len(s)} : x <= y

MaxOf(s) == CHOOSE x \in {s[i] : i \in 1..Len(s)} :
              \A y \in {s[i] : i \in 1..Len(s)} : x >= y

\* np.mean(positions, axis=0) of a non-empty array
MeanPos(ps) == <<RoundDiv(SumSeq(Column(ps, 1)), Len(ps)),
                 RoundDiv(SumSeq(Column(ps, 2)), Len(ps)),
                 RoundDiv(SumSeq(Column(ps, 3)), Len(ps))>>

\* a/b <= c/d for a, c >= 0 and b, d > 0, without forming the products
RECURSIVE FracLeq(_, _, _, _)
FracLeq(a, b, c, d) ==
  LET qa == a \div b
      qc == c \div d
      ra == a % b
      rc == c % d
  IN  IF qa # qc THEN qa < qc
      ELSE IF ra = 0 THEN TRUE
      ELSE IF rc = 0 THEN FALSE
      ELSE FracLeq(d, rc, b, ra)

\* the indices i of a boolean sequence with keep[i], in increasing order
RECURSIVE KeptIndices(_, _)
KeptIndices(keep, i) ==
  IF i > Len(keep) THEN <<>>
  ELSE IF keep[i] THEN <<i>> \o KeptIndices(keep, i + 1)
  ELSE KeptIndices(keep, i + 1)

NotMask(mask) == [i \in 1..Len(mask) |-> ~mask[i]]

AnyTrue(mask) == \E i \in 1..Len(mask) : mask[i]

CountTrue(mask) == Cardinality({i \in 1..Len(mask) : mask[i]})


(***************************************************************************)
(* AtomCluster (atom_cluster.py).  A cluster object is a record            *)
(*   kind       "Graphene" or "CarbonNanotube" (the Python class)           *)
(*   positions  the (N,3) array, a sequence of <<x, y, z>>                  *)
(*   atom_ids   the id list                                                 *)
(*   num_atoms  the stored count                                            *)
(*   axis       <<>> while the attribute is not set, else <<start, end>>    *)
(*   n, r       chirality index and radius of a tube (0 for a sheet)        *)
(*   bond_length  of a sheet (0 for a tube)                                 *)
(***************************************************************************)
NoAxis == <<>>

AtomCluster(kind, positions, atom_ids, n, r, bond_length) ==
  [kind |-> kind, positions |-> positions, atom_ids |-> atom_ids,
   num_atoms |-> Len(atom_ids), axis |-> NoAxis,
   n |-> n, r |-> r, bond_length |-> bond_length]

\* a translate that carries a stored axis along with the atoms
translate_MovesAxis(c, vector) ==
  [c EXCEPT !.positions = [i \in 1..Len(c.positions) |-> VAdd(c.positions[i], vector)],
            !.axis = IF @ = NoAxis THEN @ ELSE <<VAdd(@[1], vector), VAdd(@[2], vector)>>]

\* self.positions += vector
translate(c, vector) ==
  [c EXCEPT !.positions = [i \in 1..Len(c.positions) |-> VAdd(c.positions[i], vector)]]

\* cos and sin of an angle of q quarter turns
CosQ(q) == CASE q % 4 = 0 -> 1 [] q % 4 = 1 -> 0 [] q % 4 = 2 -> -1 [] OTHER -> 0

SinQ(q) == CASE q % 4 = 0 -> 0 [] q % 4 = 1 -> 1 [] q % 4 = 2 -> 0 [] OTHER -> -1

\* axis / np.linalg.norm(axis), for an axis along one coordinate direction
Normalize(axis) == <<Sgn(axis[1]), Sgn(axis[2]), Sgn(axis[3])>>

RodriguesPoint(p, axis, q, center) ==
  LET u  == Normalize(axis)
      pc == VSub(p, center)
  IN  VAdd(VAdd(VAdd(VScale(CosQ(q), pc), VScale(SinQ(q), Cross(u, pc))),
                VScale((1 - CosQ(q)) * Dot(pc, u), u)),
           center)

NoCenter == <<>>

\* rotate(axis, angle, center); center = NoCenter is the default None.  On an
\* empty array the mean is nan and the (empty) result is rebound unchanged.
rotate(c, axis, q, center) ==
  IF Len(c.positions) = 0 THEN c
  ELSE LET ctr == IF center = NoCenter THEN MeanPos(c.positions) ELSE center
       IN  [c EXCEPT !.positions =
              [i \in 1..Len(c.positions) |-> RodriguesPoint(c.positions[i], axis, q, ctr)]]

\* a running minimum and maximum started from the origin
get_bounding_box_FromOrigin(c) ==
  <<<<MinOf(<<0>> \o Column(c.positions, 1)), MinOf(<<0>> \o Column(c.positions, 2)),
      MinOf(<<0>> \o Column(c.positions, 3))>>,
    <<MaxOf(<<0>> \o Column(c.positions, 1)), MaxOf(<<0>> \o Column(c.positions, 2)),
      MaxOf(<<0>> \o Column(c.positions, 3))>>>>

\* np.min / np.max over axis 0: defined for a non-empty array only
get_bounding_box(c) ==
  <<<<MinOf(Column(c.positions, 1)), MinOf(Column(c.positions, 2)), MinOf(Column(c.positions, 3))>>,
    <<MaxOf(Column(c.positions, 1)), MaxOf(Column(c.positions, 2)), MaxOf(Column(c.positions, 3))>>>>

\* positions[mask]: the selector not negated
MaskPositions_Inverted(positions, mask) ==
  LET idx == KeptIndices(mask, 1)
  IN  [k \in 1..Len(idx) |-> positions[idx[k]]]

\* self.positions[~mask]
MaskPositions(positions, mask) ==
  LET idx == KeptIndices(NotMask(mask), 1)
  IN  [k \in 1..Len(idx) |-> positions[idx[k]]]

\* a deletion that leaves the id list as it was
MaskIds_Stale(atom_ids, mask) == atom_ids

\* the surviving ids in reverse order
MaskIds_Mirror(atom_ids, mask) ==
  LET m   == IF Len(atom_ids) < Len(mask) THEN Len(atom_ids) ELSE Len(mask)
      idx == KeptIndices(SubSeq(NotMask(mask), 1, m), 1)
  IN  [k \in 1..Len(idx) |-> atom_ids[idx[Len(idx) + 1 - k]]]

\* [id for id, keep in zip(self.atom_ids, ~mask) if keep]
MaskIds(atom_ids, mask) ==
  LET m   == IF Len(atom_ids) < Len(mask) THEN Len(atom_ids) ELSE Len(mask)
      idx == KeptIndices(SubSeq(NotMask(mask), 1, m), 1)
  IN  [k \in 1..Len(idx) |-> atom_ids[idx[k]]]

\* a deletion that forgets to update the stored count
delete_atoms_StaleCount(c, mask) ==
  [c EXCEPT !.positions = MaskPositions(c.positions, mask),
            !.atom_ids = MaskIds(c.atom_ids, mask)]

delete_atoms(c, mask) ==
  LET ids == MaskIds(c.atom_ids, mask)
  IN  [c EXCEPT !.positions = MaskPositions(c.positions, mask),
                !.atom_ids = ids,
                !.num_atoms = Len(ids)]

(***************************************************************************)
(* Graphene (graphene.py).                                                  *)
(***************************************************************************)
\* np.sqrt(3) * bond_length / 2 and np.sqrt(3) * bond_length on the grid
Sqrt3Half(d) == RoundDiv(866 * d, 1000)

Sqrt3Times(d) == 2 * Sqrt3Half(d)

\* a buckled sheet: the second basis atom lifted out of the plane
GrapheneAtom_Buckled(i, j, b, d) ==
  <<i * Sqrt3Times(d) + j * Sqrt3Half(d) + b * Sqrt3Half(d),
    j * ((3 * d) \div 2) + b * (d \div 2),
    b>>

\* the atom emitted for cell (i, j) and basis atom b (0 or 1):
\*   i * a1 + j * a2 + basis[b],  a1 = (sqrt3 d, 0, 0),  a2 = (sqrt3 d / 2, 3 d / 2, 0)
GrapheneAtom(i, j, b, d) ==
  <<i * Sqrt3Times(d) + j * Sqrt3Half(d) + b * Sqrt3Half(d),
    j * ((3 * d) \div 2) + b * (d \div 2),
    0>>

\* ny rows instead of 2 ny
GraphenePositions_HalfRows(nx, ny, d) ==
  [k \in 1..(nx * ny * 2) |->
     LET e == k - 1
     IN  GrapheneAtom(e \div (2 * ny), (e \div 2) % ny, e % 2, d)]

\* the y index outermost
GraphenePositions_YOuter(nx, ny, d) ==
  [k \in 1..(nx * (2 * ny) * 2) |->
     LET e == k - 1
     IN  GrapheneAtom((e \div 2) % nx, e \div (2 * nx), e % 2, d)]

\* for i in range(nx): for j in range(2*ny): for b in basis  (emission order)
GraphenePositions(nx, ny, d) ==
  [k \in 1..(nx * (2 * ny) * 2) |->
     LET e == k - 1
     IN  GrapheneAtom(e \div (4 * ny), (e \div 2) % (2 * ny), e % 2, d)]

\* self.nx, self.ny are kept on the sheet object
Graphene(nx, ny, d) ==
  LET positions == GraphenePositions(nx, ny, d)
  IN  AtomCluster("Graphene", positions, [k \in 1..Len(positions) |-> k], 0, 0, d)
        @@ [nx |-> nx, ny |-> ny]

\* distances < radius: the boundary left out
HoleMask_Strict(c, hole_center, radius) ==
  [i \in 1..Len(c.positions) |->
     radius >= 0 /\ Norm2(VSub(c.positions[i], hole_center)) < radius * radius]

\* distances <= radius on squares (a negative radius matches nothing)
HoleMask(c, hole_center, radius) ==
  [i \in 1..Len(c.positions) |->
     radius >= 0 /\ Norm2(VSub(c.positions[i], hole_center)) <= radius * radius]

dig_hole(c, hole_center, radius) == delete_atoms(c, HoleMask(c, hole_center, radius))

(***************************************************************************)
(* CarbonNanotube (nanotube.py), armchair (n, n), p axial cells.            *)
(*                                                                          *)
(* With Ch = n (a1 + a2), T = a1 - a2:  a1.Ch = a2.Ch = 9 n d^2 / 2,        *)
(* |Ch| = 3 n d, a1.T = -a2.T = 3 d^2 / 2, |T| = sqrt3 d.  For the point    *)
(* Q = u a1 + v a2 + f (a1 + a2) + k T  (f = 0 or 1/3):                     *)
(*   phi = 2 pi (Q.Ch_u) / |Ch| = 2 pi (3 (u + v) + 6 f) / (6 n)            *)
(*   z   = Q.T_u = (sqrt3 d / 2) (u - v + 2 k)                              *)
(* so phi is PhiIndex steps of 2 pi / (6 n) and z is ZIndex steps of        *)
(* sqrt3 d / 2, and Ltot = p |T| is 2 p such steps.                         *)
(***************************************************************************)
\* R = 3 d n / (2 pi)
TubeRadius(n, d) == RoundDiv(3 * d * n * 1000, 6283)

PhiIndex(n, u, v, b) == (3 * (u + v) + 2 * b) % (6 * n)

ZIndex(u, v, k) == u - v + 2 * k

\* 1000 cos and 1000 sin of k * 30 degrees
Cos30(k) == <<1000, 866, 500, 0, -500, -866, -1000, -866, -500, 0, 500, 866>>[(k % 12) + 1]

Sin30(k) == Cos30(k + 9)

RoundS(a, b) == Sgn(a) * RoundDiv(Abs(a), b)

\* the raw candidate [R cos(phi), R sin(phi), z % Ltot] of (k, u, v, b); the
\* angle step 2 pi / (6 n) is 12 / (6 n) steps of 30 degrees (n = 1 or 2)
TubeAtom(n, p, d, k, u, v, b) ==
  LET a == PhiIndex(n, u, v, b) * (12 \div (6 * n))
  IN  <<RoundS(TubeRadius(n, d) * Cos30(a), 1000),
        RoundS(TubeRadius(n, d) * Sin30(a), 1000),
        (ZIndex(u, v, k) % (2 * p)) * Sqrt3Half(d)>>

\* n columns instead of 2 n: 4 n p raw candidates
RawPositions_NColumns(n, p, d) ==
  [e1 \in 1..(p * n * 2 * 2) |->
     LET e == e1 - 1
     IN  TubeAtom(n, p, d, e \div (4 * n), (e \div 4) % n, (e \div 2) % 2, e % 2)]

\* for k in range(p): for u in range(2n): for v in (0, 1): for basis  (8 n p raw)
RawPositions(n, p, d) ==
  [e1 \in 1..(p * 2 * n * 2 * 2) |->
     LET e == e1 - 1
     IN  TubeAtom(n, p, d, e \div (8 * n), (e \div 4) % (2 * n), (e \div 2) % 2, e % 2)]

\* The raw candidates whose axial coordinate is a whole multiple of Ltot.  z is
\* the floating-point dot product np.dot(Q, T_u), so for these candidates it
\* comes out a rounding error above or below the multiple, and z % Ltot is
\* then next to 0 or next to Ltot; which one depends on the evaluation order
\* of the build.
SeamRaw(n, p) ==
  {e1 \in 1..(8 * n * p) :
     LET e == e1 - 1
     IN  ZIndex((e \div 4) % (2 * n), (e \div 2) % 2, e \div (8 * n)) % (2 * p) = 0}

\* raw_pos with z % Ltot, the candidates of below landing next to Ltot
WrappedPositions(n, p, d, below) ==
  LET raw == RawPositions(n, p, d)
  IN  [e1 \in 1..Len(raw) |->
         IF e1 \in below \cap SeamRaw(n, p)
         THEN <<raw[e1][1], raw[e1][2], 2 * p * Sqrt3Half(d)>>
         ELSE raw[e1]]

\* the OrderedDict keyed by the rounded coordinates: first occurrence kept
RECURSIVE Unique(_, _)
Unique(raw, seen) ==
  IF raw = <<>> THEN seen
  ELSE IF \E i \in 1..Len(seen) : seen[i] = Head(raw)
       THEN Unique(Tail(raw), seen)
       ELSE Unique(Tail(raw), Append(seen, Head(raw)))

\* below: the seam candidates whose z the build computes just under a
\* multiple of Ltot ({} when every one of them lands on or above it)
CarbonNanotube(n, p, d, below) ==
  LET uniq      == Unique(WrappedPositions(n, p, d, below), <<>>)
      center    == MeanPos(uniq)
      positions == [i \in 1..Len(uniq) |-> VSub(uniq[i], center)]
  IN  AtomCluster("CarbonNanotube", positions, [k \in 1..Len(positions) |-> k],
                  n, TubeRadius(n, d), 0)

\* np.any(dists < tolerance) against every atom of the tube
NearTube(tube, pos, tolerance) ==
  tolerance > 0 /\ \E j \in 1..Len(tube.positions) :
     Norm2(VSub(pos, tube.positions[j])) < tolerance * tolerance

\* the prefilter: inside the bounding box of the cluster itself, +- tolerance
InOwnBox(c, pos, tolerance) ==
  LET bb == get_bounding_box(c)
  IN  \A k \in 1..3 : pos[k] >= bb[1][k] - tolerance /\ pos[k] <= bb[2][k] + tolerance

InnerMask(tube, c, tolerance) ==
  [i \in 1..Len(c.positions) |->
     InOwnBox(c, c.positions[i], tolerance) /\ NearTube(tube, c.positions[i], tolerance)]


(***************************************************************************)
(* Box (box.py).  A box is [box_size, clusters]: clusters is the list of    *)
(* the held cluster objects (their identities), box_min = -box_size / 2.    *)
(* A heap maps each cluster identity to the object's current record.        *)
(***************************************************************************)
Box(box_size) == [box_size |-> box_size, clusters |-> <<>>]

\* x % size: the shift by box_min left out
WrapCoord_NoShift(x, size) == x % size

\* a wrap into (-size/2, +size/2]: the lower face sent to the upper one
WrapCoord_Upper(x, size) == -((((size - 2 * x) % (2 * size)) - size) \div 2)

\* ((x - box_min) % size) + box_min with box_min = -size / 2, computed in half
\* units so that an odd size is exact: (((2x + size) % 2 size) - size) / 2
WrapCoord(x, size) == (((2 * x + size) % (2 * size)) - size) \div 2

WrapPoint(p, box_size) ==
  <<WrapCoord(p[1], box_size[1]), WrapCoord(p[2], box_size[2]), WrapCoord(p[3], box_size[3])>>

wrap_cluster(box_size, c) ==
  [c EXCEPT !.positions = [i \in 1..Len(c.positions) |-> WrapPoint(c.positions[i], box_size)]]

\* np.mod(diff + box_size/2, box_size) - box_size/2
MinImage(diff, box_size) ==
  <<WrapCoord(diff[1], box_size[1]), WrapCoord(diff[2], box_size[2]), WrapCoord(diff[3], box_size[3])>>

\* distances[i, j] < 1.5, the diagonal being 0
IsNear(positions, i, j, box_size) ==
  \/ i = j
  \/ LET lo == IF i < j THEN i ELSE j
         hi == IF i < j THEN j ELSE i
     IN  Norm2(MinImage(VSub(positions[hi], positions[lo]), box_size)) < BondCutoff * BondCutoff

neighbor_count(positions, i, box_size) ==
  Cardinality({j \in 1..Len(positions) : IsNear(positions, i, j, box_size)})

EndMask(positions, box_size) ==
  [i \in 1..Len(positions) |-> neighbor_count(positions, i, box_size) = 3]

\* the validation against n, not 2 n
get_nanotube_axis_HalfCount(box_size, cnt) ==
  LET positions == cnt.positions
      isEnd     == EndMask(positions, box_size)
      idx       == KeptIndices(isEnd, 1)
      end_atoms == [k \in 1..Len(idx) |-> positions[idx[k]]]
      z_coords  == Column(end_atoms, 3)
      fail      == [ok |-> FALSE, start |-> <<>>, end |-> <<>>]
  IN  IF Len(end_atoms) = 0 THEN fail
      ELSE LET z2mid == MinOf(z_coords) + MaxOf(z_coords)
               i1 == KeptIndices([k \in 1..Len(end_atoms) |-> 2 * z_coords[k] < z2mid], 1)
               i2 == KeptIndices([k \in 1..Len(end_atoms) |-> 2 * z_coords[k] > z2mid], 1)
               group1 == [k \in 1..Len(i1) |-> end_atoms[i1[k]]]
               group2 == [k \in 1..Len(i2) |-> end_atoms[i2[k]]]
           IN  IF Len(group1) # cnt.n \/ Len(group2) # cnt.n THEN fail
               ELSE [ok |-> TRUE, start |-> MeanPos(group1), end |-> MeanPos(group2)]

\* get_nanotube_axis: [ok, start, end]; ok = FALSE is the ValueError (np.min of
\* no end atom at all, or a group whose size is not 2 n)
get_nanotube_axis(box_size, cnt) ==
  LET positions == cnt.positions
      isEnd     == EndMask(positions, box_size)
      idx       == KeptIndices(isEnd, 1)
      end_atoms == [k \in 1..Len(idx) |-> positions[idx[k]]]
      z_coords  == Column(end_atoms, 3)
      fail      == [ok |-> FALSE, start |-> <<>>, end |-> <<>>]
  IN  IF Len(end_atoms) = 0 THEN fail
      ELSE LET z2mid == MinOf(z_coords) + MaxOf(z_coords)
               i1 == KeptIndices([k \in 1..Len(end_atoms) |-> 2 * z_coords[k] < z2mid], 1)
               i2 == KeptIndices([k \in 1..Len(end_atoms) |-> 2 * z_coords[k] > z2mid], 1)
               group1 == [k \in 1..Len(i1) |-> end_atoms[i1[k]]]
               group2 == [k \in 1..Len(i2) |-> end_atoms[i2[k]]]
           IN  IF Len(group1) # 2 * cnt.n \/ Len(group2) # 2 * cnt.n THEN fail
               ELSE [ok |-> TRUE, start |-> MeanPos(group1), end |-> MeanPos(group2)]

\* the cluster appended but not wrapped
add_cluster_NoWrap(bx, heap, c) ==
  LET isTube  == heap[c].kind = "CarbonNanotube"
      det     == get_nanotube_axis(bx.box_size, heap[c])
  IN  [box    |-> [bx EXCEPT !.clusters = Append(@, c)],
       heap   |-> [heap EXCEPT ![c] = IF isTube /\ det.ok
                                        THEN [@ EXCEPT !.axis = <<det.start, det.end>>]
                                        ELSE @],
       result |-> IF isTube /\ ~det.ok THEN "ValueError" ELSE "ok"]

\* an add_cluster that validates first: a rejected tube is neither appended
\* nor wrapped
add_cluster_Atomic(bx, heap, c) ==
  LET wrapped == wrap_cluster(bx.box_size, heap[c])
      isTube  == heap[c].kind = "CarbonNanotube"
      det     == get_nanotube_axis(bx.box_size, wrapped)
  IN  IF isTube /\ ~det.ok
      THEN [box |-> bx, heap |-> heap, result |-> "ValueError"]
      ELSE [box    |-> [bx EXCEPT !.clusters = Append(@, c)],
            heap   |-> [heap EXCEPT ![c] = IF isTube
                                             THEN [wrapped EXCEPT !.axis = <<det.start, det.end>>]
                                             ELSE wrapped],
            result |-> "ok"]

\* add_cluster: append, wrap, and for a tube detect and store the axis; the
\* ValueError of the detection leaves the cluster appended and wrapped
add_cluster(bx, heap, c) ==
  LET wrapped == wrap_cluster(bx.box_size, heap[c])
      isTube  == heap[c].kind = "CarbonNanotube"
      det     == get_nanotube_axis(bx.box_size, wrapped)
  IN  [box    |-> [bx EXCEPT !.clusters = Append(@, c)],
       heap   |-> [heap EXCEPT ![c] = IF isTube /\ det.ok
                                        THEN [wrapped EXCEPT !.axis = <<det.start, det.end>>]
                                        ELSE wrapped],
       result |-> IF isTube /\ ~det.ok THEN "ValueError" ELSE "ok"]

\* wrap_all: for cluster in self.clusters: self.wrap_cluster(cluster)
RECURSIVE wrap_all(_, _, _)
wrap_all(box_size, heap, clusters) ==
  IF clusters = <<>> THEN heap
  ELSE wrap_all(box_size,
                [heap EXCEPT ![Head(clusters)] = wrap_cluster(box_size, @)],
                Tail(clusters))

\* np.vstack([cluster.positions for cluster in self.clusters])
RECURSIVE get_all_positions(_, _)
get_all_positions(heap, clusters) ==
  IF clusters = <<>> THEN <<>>
  ELSE heap[Head(clusters)].positions \o get_all_positions(heap, Tail(clusters))

\* an export that numbers the atoms of the box 1..total
get_all_atom_ids_Renumbered(heap, clusters) ==
  [i \in 1..SumSeq([k \in 1..Len(clusters) |-> Len(heap[clusters[k]].atom_ids)]) |-> i]

RECURSIVE get_all_atom_ids(_, _)
get_all_atom_ids(heap, clusters) ==
  IF clusters = <<>> THEN <<>>
  ELSE heap[Head(clusters)].atom_ids \o get_all_atom_ids(heap, Tail(clusters))

\* the upper bound excluded
RegionMask_OpenAbove(c, axis, min_val, max_val) ==
  [i \in 1..Len(c.positions) |->
     c.positions[i][axis + 1] >= min_val /\ c.positions[i][axis + 1] < max_val]

\* (positions[:, axis] >= min_val) & (positions[:, axis] <= max_val)
RegionMask(c, axis, min_val, max_val) ==
  [i \in 1..Len(c.positions) |->
     c.positions[i][axis + 1] >= min_val /\ c.positions[i][axis + 1] <= max_val]

RECURSIVE delete_in_region_all(_, _, _, _, _)
delete_in_region_all(heap, clusters, axis, min_val, max_val) ==
  IF clusters = <<>> THEN heap
  ELSE delete_in_region_all(
         [heap EXCEPT ![Head(clusters)] = delete_atoms(@, RegionMask(@, axis, min_val, max_val))],
         Tail(clusters), axis, min_val, max_val)

NoCluster == "None"

delete_atoms_in_region(bx, heap, axis, min_val, max_val, cluster) ==
  IF cluster # NoCluster
  THEN [heap EXCEPT ![cluster] = delete_atoms(@, RegionMask(@, axis, min_val, max_val))]
  ELSE delete_in_region_all(heap, bx.clusters, axis, min_val, max_val)

\* the far end without its tolerance: projection <= L
InCnt_NoFarTol(pos, start, end, r) ==
  LET v   == VSub(end, start)
      V   == Norm2(v)
      rel == VSub(pos, start)
      P   == Dot(rel, v)
      K   == Norm2(rel) - r * r
      tt  == AxialTol * AxialTol
  IN  /\ V > 0
      /\ (P >= 0 \/ FracLeq(-P, tt, V, -P))
      /\ P <= V
      /\ (K <= 0 \/ (P # 0 /\ FracLeq(K, Abs(P), Abs(P), V)))

\* One atom of delete_atoms_in_cnt.  With v = end - start, V = |v|^2, L = |v|,
\* rel = pos - start and P = rel.v:  projection = P / L,
\*   projection >= -tol       iff  P >= 0  or  P^2 <= tol^2 V
\*   projection <= L + tol    iff  P <= V  or  (P - V)^2 <= tol^2 V
\*   perpendicular^2 = |rel|^2 - P^2 / V <= r^2
\*                            iff  |rel|^2 <= r^2  or  (|rel|^2 - r^2) V <= P^2
\* V = 0 makes the direction nan and every comparison false.
InCnt(pos, start, end, r) ==
  LET v   == VSub(end, start)
      V   == Norm2(v)
      rel == VSub(pos, start)
      P   == Dot(rel, v)
      K   == Norm2(rel) - r * r
      tt  == AxialTol * AxialTol
  IN  /\ V > 0
      /\ (P >= 0 \/ FracLeq(-P, tt, V, -P))
      /\ (P <= V \/ FracLeq(P - V, tt, V, P - V))
      /\ (K <= 0 \/ (P # 0 /\ FracLeq(K, Abs(P), Abs(P), V)))

CntMask(c, cnt) ==
  [i \in 1..Len(c.positions) |-> InCnt(c.positions[i], cnt.axis[1], cnt.axis[2], cnt.r)]

\* if np.any(delete_mask): cluster.delete_atoms(delete_mask)
delete_atoms_in_cnt(c, cnt) ==
  IF AnyTrue(CntMask(c, cnt)) THEN delete_atoms(c, CntMask(c, cnt)) ELSE c

\* the first index of the maximum (np.argmax)
ArgMax(s) == CHOOSE i \in 1..Len(s) :
               /\ \A j \in 1..Len(s) : s[j] <= s[i]
               /\ \A j \in 1..(i - 1) : s[j] < s[i]

\* the x size taken from the leftmost atom of the whole sheet
GrapheneBoxSize_AllRows(graphene, vacuum) ==
  LET xs == Column(graphene.positions, 1)
      ys == Column(graphene.positions, 2)
  IN  <<MaxOf(xs) - MinOf(xs) + Sqrt3Times(graphene.bond_length),
        MaxOf(ys) - MinOf(ys) + graphene.bond_length,
        vacuum>>

\* the box without the margins: the extent of the atoms themselves
GrapheneBoxSize_NoMargin(graphene, vacuum) ==
  LET xs == Column(graphene.positions, 1)
      ys == Column(graphene.positions, 2)
  IN  <<MaxOf(xs) - MinOf(xs), MaxOf(ys) - MinOf(ys), vacuum>>

\* the box size init_from_graphene computes for a non-empty sheet
GrapheneBoxSize(graphene, vacuum) ==
  LET xs       == Column(graphene.positions, 1)
      ys       == Column(graphene.positions, 2)
      x_max    == MaxOf(xs)
      max_x_y  == ys[ArgMax(xs)]
      same_idx == KeptIndices([i \in 1..Len(ys) |-> ys[i] = max_x_y], 1)
      x_min_same_y == MinOf([k \in 1..Len(same_idx) |-> xs[same_idx[k]]])
      x_dim    == x_max - x_min_same_y + Sqrt3Times(graphene.bond_length)
      y_dim    == MaxOf(ys) - MinOf(ys) + graphene.bond_length
  IN  <<x_dim, y_dim, vacuum>>

\* box = cls(box_size); box.add_cluster(graphene)
init_from_graphene(heap, c, vacuum) ==
  add_cluster(Box(GrapheneBoxSize(heap[c], vacuum)), heap, c)


\* tube.delete_inner_atoms(clusters, tolerance): [heap, result]; the bounding
\* box of an empty cluster raises ValueError and ends the loop
RECURSIVE delete_inner_atoms(_, _, _, _)
delete_inner_atoms(heap, tube, clusters, tolerance) ==
  IF clusters = <<>> THEN [heap |-> heap, result |-> "ok"]
  ELSE LET c == Head(clusters)
       IN  IF Len(heap[c].positions) = 0
           THEN [heap |-> heap, result |-> "ValueError"]
           ELSE LET mask == InnerMask(heap[tube], heap[c], tolerance)
                    h2   == IF AnyTrue(mask)
                            THEN [heap EXCEPT ![c] = delete_atoms(@, mask)]
                            ELSE heap
                IN  delete_inner_atoms(h2, tube, Tail(clusters), tolerance)

(***************************************************************************)
(* The inputs the operations are called with.                               *)
(***************************************************************************)
CIds == {"g", "t"}

SheetParams == {<<1, 1>>}

TubeParams == {<<1, 1>>, <<2, 1>>}

BondLengths == {BondLength}

BoxSizes == {<<600, 600, 600>>, <<246, 426, 400>>}

\* the box a session starts with; init_from_graphene makes the tight one
StartSizes == {<<600, 600, 600>>}

Vacuums == {400}

Vectors == {<<0, 0, 62>>, <<-700, 150, 0>>}

RotAxes == {<<0, 2, 0>>}

Quarters == {1}

Centers == {NoCenter, <<0, 0, 0>>}

Holes == {<<<<123, 0, 0>>, 71>>, <<<<123, 142, 0>>, 1000>>}

Tolerances == {150}

Regions == {<<2, -62, 0>>, <<0, 124, 300>>}

\* the deletion masks of length N the model calls delete_atoms with
Masks(N) == {[i \in 1..N |-> i = 1], [i \in 1..N |-> i % 2 = 0]}

ClusterLists == {<<"g">>, <<"g", "t">>}

(***************************************************************************)
(* The state machine: cl is the heap of cluster objects, boxes the boxes    *)
(* created so far, last the last call (operation, box, cluster, arguments,  *)
(* outcome), steps the number of calls made.                                *)
(***************************************************************************)
Call(op, b, c, arg, result) == [op |-> op, b |-> b, c |-> c, arg |-> arg, result |-> result]

\* dig_hole prints the number removed (counted before the deletion) and
\* len(self.atom_ids) after it
DigHoleOutput(c, hole) ==
  <<CountTrue(HoleMask(c, hole[1], hole[2])), Len(dig_hole(c, hole[1], hole[2]).atom_ids)>>

InitClusters(sp, tp, d) ==
  [c \in CIds |-> IF c = "g" THEN Graphene(sp[1], sp[2], d)
                             ELSE CarbonNanotube(tp[1], tp[2], d, {})]

Init ==
  /\ \E sp \in SheetParams, tp \in TubeParams, d \in BondLengths :
       cl = InitClusters(sp, tp, d)
  /\ \E size \in StartSizes : boxes = <<Box(size)>>
  /\ last = Call("init", 0, NoCluster, <<>>, "ok")
  /\ steps = 0

Step == steps < MaxSteps /\ steps' = steps + 1

\* g = Graphene(nx, ny, d): a new sheet object, bound to a name no box holds
NewGraphene(c, sp, d) ==
  /\ Step
  /\ \A b \in 1..Len(boxes) : \A k \in 1..Len(boxes[b].clusters) : boxes[b].clusters[k] # c
  /\ cl' = [cl EXCEPT ![c] = Graphene(sp[1], sp[2], d)]
  /\ last' = Call("Graphene", 0, c, <<sp[1], sp[2], d>>, "ok")
  /\ UNCHANGED boxes

\* t = CarbonNanotube(n, p, d): a new tube object, bound to a name no box holds
NewCarbonNanotube(c, tp, d, below) ==
  /\ Step
  /\ \A b \in 1..Len(boxes) : \A k \in 1..Len(boxes[b].clusters) : boxes[b].clusters[k] # c
  /\ cl' = [cl EXCEPT ![c] = CarbonNanotube(tp[1], tp[2], d, below)]
  /\ last' = Call("CarbonNanotube", 0, c, <<tp[1], tp[2], d>>, "ok")
  /\ UNCHANGED boxes

Translate(c, v) ==
  /\ Step
  /\ cl' = [cl EXCEPT ![c] = translate(@, v)]
  /\ last' = Call("translate", 0, c, v, "ok")
  /\ UNCHANGED boxes

Rotate(c, axis, q, center) ==
  /\ Step
  /\ cl' = [cl EXCEPT ![c] = rotate(@, axis, q, center)]
  /\ last' = Call("rotate", 0, c, <<axis, q, center>>, "ok")
  /\ UNCHANGED boxes

DeleteAtoms(c, mask) ==
  /\ Step
  /\ cl' = [cl EXCEPT ![c] = delete_atoms(@, mask)]
  /\ last' = Call("delete_atoms", 0, c, mask, "ok")
  /\ UNCHANGED boxes

DigHole(c, hole) ==
  /\ Step
  /\ cl[c].kind = "Graphene"
  /\ cl' = [cl EXCEPT ![c] = dig_hole(@, hole[1], hole[2])]
  /\ last' = Call("dig_hole", 0, c, <<hole, DigHoleOutput(cl[c], hole)>>, "ok")
  /\ UNCHANGED boxes

DeleteInnerAtoms(t, clusters, tolerance) ==
  /\ Step
  /\ cl[t].kind = "CarbonNanotube"
  /\ LET res == delete_inner_atoms(cl, t, clusters, tolerance)
     IN  /\ cl' = res.heap
         /\ last' = Call("delete_inner_atoms", 0, t, <<clusters, tolerance>>, res.result)
  /\ UNCHANGED boxes

AddCluster(b, c) ==
  /\ Step
  /\ LET res == add_cluster(boxes[b], cl, c)
     IN  /\ boxes' = [boxes EXCEPT ![b] = res.box]
         /\ cl' = res.heap
         /\ last' = Call("add_cluster", b, c, <<>>, res.result)

WrapCluster(b, c) ==
  /\ Step
  /\ cl' = [cl EXCEPT ![c] = wrap_cluster(boxes[b].box_size, @)]
  /\ last' = Call("wrap_cluster", b, c, <<>>, "ok")
  /\ UNCHANGED boxes

WrapAll(b) ==
  /\ Step
  /\ cl' = wrap_all(boxes[b].box_size, cl, boxes[b].clusters)
  /\ last' = Call("wrap_all", b, NoCluster, <<>>, "ok")
  /\ UNCHANGED boxes

\* box.get_all_positions(): np.vstack of an empty list raises ValueError
GetAllPositions(b) ==
  /\ Step
  /\ last' = IF boxes[b].clusters = <<>>
             THEN Call("get_all_positions", b, NoCluster, <<>>, "ValueError")
             ELSE Call("get_all_positions", b, NoCluster,
                       get_all_positions(cl, boxes[b].clusters), "ok")
  /\ UNCHANGED <<cl, boxes>>

\* box.get_all_atom_ids()
GetAllAtomIds(b) ==
  /\ Step
  /\ last' = Call("get_all_atom_ids", b, NoCluster, get_all_atom_ids(cl, boxes[b].clusters), "ok")
  /\ UNCHANGED <<cl, boxes>>

DeleteAtomsInRegion(b, region, c) ==
  /\ Step
  /\ cl' = delete_atoms_in_region(boxes[b], cl, region[1], region[2], region[3], c)
  /\ last' = Call("delete_atoms_in_region", b, c, region, "ok")
  /\ UNCHANGED boxes

\* cnt.axis of an object without the attribute raises AttributeError
DeleteAtomsInCnt(b, c, t) ==
  /\ Step
  /\ IF cl[t].axis = NoAxis
     THEN /\ cl' = cl
          /\ last' = Call("delete_atoms_in_cnt", b, c, t, "AttributeError")
     ELSE /\ cl' = [cl EXCEPT ![c] = delete_atoms_in_cnt(@, cl[t])]
          /\ last' = Call("delete_atoms_in_cnt", b, c, t, "ok")
  /\ UNCHANGED boxes

\* np.max of an empty sheet raises ValueError before a box is made
InitFromGraphene(c, vacuum) ==
  /\ Step
  /\ Len(boxes) < MaxBoxes
  /\ cl[c].kind = "Graphene"
  /\ IF Len(cl[c].positions) = 0
     THEN /\ UNCHANGED <<cl, boxes>>
          /\ last' = Call("init_from_graphene", 0, c, vacuum, "ValueError")
     ELSE LET res == init_from_graphene(cl, c, vacuum)
          IN  /\ boxes' = Append(boxes, res.box)
              /\ cl' = res.heap
              /\ last' = Call("init_from_graphene", Len(boxes) + 1, c, vacuum, res.result)

\* c.get_bounding_box(): np.min of a (0, 3) array raises ValueError
GetBoundingBox(c) ==
  /\ Step
  /\ last' = IF Len(cl[c].positions) = 0
             THEN Call("get_bounding_box", 0, c, <<>>, "ValueError")
             ELSE Call("get_bounding_box", 0, c, get_bounding_box(cl[c]), "ok")
  /\ UNCHANGED <<cl, boxes>>

BoxIds == 1..Len(boxes)

Next ==
  \/ \E c \in CIds, v \in Vectors : Translate(c, v)
  \/ \E c \in CIds, axis \in RotAxes, q \in Quarters, center \in Centers :
       Rotate(c, axis, q, center)
  \/ \E c \in CIds : \E mask \in Masks(Len(cl[c].positions)) : DeleteAtoms(c, mask)
  \/ \E c \in CIds, hole \in Holes : DigHole(c, hole)
  \/ \E t \in CIds, clusters \in ClusterLists, tol \in Tolerances :
       DeleteInnerAtoms(t, clusters, tol)
  \/ \E b \in BoxIds, c \in CIds : AddCluster(b, c)
  \/ \E b \in BoxIds, c \in CIds : WrapCluster(b, c)
  \/ \E b \in BoxIds : WrapAll(b)
  \/ \E b \in BoxIds, region \in Regions, c \in CIds \cup {NoCluster} :
       DeleteAtomsInRegion(b, region, c)
  \/ \E b \in BoxIds, c \in CIds, t \in CIds : DeleteAtomsInCnt(b, c, t)
  \/ \E b \in BoxIds : GetAllPositions(b)
  \/ \E b \in BoxIds : GetAllAtomIds(b)
  \/ \E c \in CIds, vacuum \in Vacuums : InitFromGraphene(c, vacuum)

Spec == Init /\ [][Next]_vars


(***************************************************************************)
(* The box-only specification: the clusters have been placed anywhere       *)
(* before the box sees them, and from then on only Box operations run.      *)
(***************************************************************************)
PreVectors == {<<0, 0, 0>>, <<300, -1500, 62>>, <<-751, 213, -2000>>}

InitBox ==
  /\ \E sp \in SheetParams, tp \in TubeParams, d \in BondLengths, v \in PreVectors :
       cl = [c \in CIds |-> translate(InitClusters(sp, tp, d)[c], v)]
  /\ \E size \in BoxSizes : boxes = <<Box(size)>>
  /\ last = Call("init", 0, NoCluster, <<>>, "ok")
  /\ steps = 0

NextBox ==
  \/ \E b \in BoxIds, c \in CIds : AddCluster(b, c)
  \/ \E b \in BoxIds, c \in CIds : WrapCluster(b, c)
  \/ \E b \in BoxIds : WrapAll(b)
  \/ \E b \in BoxIds, region \in Regions, c \in CIds \cup {NoCluster} :
       DeleteAtomsInRegion(b, region, c)
  \/ \E b \in BoxIds, c \in CIds, t \in CIds : DeleteAtomsInCnt(b, c, t)
  \/ \E b \in BoxIds : GetAllPositions(b)
  \/ \E b \in BoxIds : GetAllAtomIds(b)
  \/ \E c \in CIds, vacuum \in Vacuums : InitFromGraphene(c, vacuum)

SpecBox == InitBox /\ [][NextBox]_vars

(***************************************************************************)
(* The cluster-only specification: transforms, deletions and the bounding   *)
(* box query on clusters that no box holds.                                 *)
(***************************************************************************)
NextCluster ==
  \/ \E c \in CIds, v \in Vectors : Translate(c, v)
  \/ \E c \in CIds, axis \in RotAxes, q \in Quarters, center \in Centers :
       Rotate(c, axis, q, center)
  \/ \E c \in CIds : \E mask \in Masks(Len(cl[c].positions)) : DeleteAtoms(c, mask)
  \/ \E c \in CIds, hole \in Holes : DigHole(c, hole)
  \/ \E c \in CIds : GetBoundingBox(c)

SpecCluster == Init /\ [][NextCluster]_vars

(***************************************************************************)
(* Sheets of several sizes and bond lengths, built and boxed.               *)
(***************************************************************************)
GenSheetParams == {<<1, 1>>, <<2, 1>>, <<1, 2>>, <<2, 2>>, <<3, 1>>}

GenBondLengths == {BondLength, 100}

GenVacuums == {400, 1000}

NextSheet ==
  \/ \E sp \in GenSheetParams, d \in GenBondLengths : NewGraphene("g", sp, d)
  \/ \E vacuum \in GenVacuums : InitFromGraphene("g", vacuum)
  \/ \E b \in BoxIds : AddCluster(b, "g")
  \/ \E b \in BoxIds : WrapAll(b)
  \/ \E v \in Vectors : Translate("g", v)
  \/ \E hole \in Holes : DigHole("g", hole)

SpecSheet == Init /\ [][NextSheet]_vars

(***************************************************************************)
(* Tubes of several sizes, built under either rounding of the seam, moved   *)
(* rigidly and added to a box that leaves a vacuum on every side.           *)
(***************************************************************************)
GenTubeParams == {<<1, 1>>, <<2, 1>>, <<1, 2>>, <<2, 3>>}

TubeSizes == {<<6400, 6400, 7400>>}

\* the roundings of the seam: at most MaxSeam candidates land below it
SeamOutcomes(tp) == {S \in SUBSET SeamRaw(tp[1], tp[2]) : Cardinality(S) <= MaxSeam}

InitTube ==
  /\ \E sp \in SheetParams, tp \in TubeParams, d \in BondLengths :
       cl = InitClusters(sp, tp, d)
  /\ \E size \in TubeSizes : boxes = <<Box(size)>>
  /\ last = Call("init", 0, NoCluster, <<>>, "ok")
  /\ steps = 0

NextTube ==
  \/ \E tp \in GenTubeParams, d \in BondLengths : \E below \in SeamOutcomes(tp) :
       NewCarbonNanotube("t", tp, d, below)
  \/ \E v \in Vectors : Translate("t", v)
  \/ \E axis \in RotAxes, q \in Quarters, center \in Centers : Rotate("t", axis, q, center)
  \/ \E b \in BoxIds : AddCluster(b, "t")

SpecTube == InitTube /\ [][NextTube]_vars

(***************************************************************************)
(* The generator alone: tubes are built, under either rounding of the seam, *)
(* and measured.                                                            *)
(***************************************************************************)
GenRawParams == {<<1, 1>>, <<2, 1>>, <<1, 2>>, <<1, 3>>}

NextGen ==
  \/ \E tp \in GenRawParams, d \in BondLengths : \E below \in SeamOutcomes(tp) :
       NewCarbonNanotube("t", tp, d, below)
  \/ GetBoundingBox("t")

SpecGen == Init /\ [][NextGen]_vars

(***************************************************************************)
(* Properties.                                                              *)
(***************************************************************************)
\* the clusters a box holds, as a set
Held(b) == {boxes[b].clusters[k] : k \in 1..Len(boxes[b].clusters)}

\* the number of kept indices up to i
Rank(K, i) == Cardinality({j \in K : j <= i})

\* new holds exactly the atoms of old with index in K, in the old order, each
\* position with the id it had, and counts them
IsStableRemainder(old, new, K) ==
  /\ Len(new.positions) = Cardinality(K)
  /\ Len(new.atom_ids) = Cardinality(K)
  /\ new.num_atoms = Cardinality(K)
  /\ \A i \in K : /\ new.positions[Rank(K, i)] = old.positions[i]
                  /\ new.atom_ids[Rank(K, i)] = old.atom_ids[i]

\* C1: in every reachable state, after any sequence of translate, rotate,
\* delete_atoms, dig_hole, delete_inner_atoms, add_cluster, wrap_cluster,
\* wrap_all, delete_atoms_in_region and delete_atoms_in_cnt calls on generated
\* clusters, each cluster has as many positions as ids, and num_atoms is that
\* number.
C1_CountsAgree ==
  \A c \in CIds : /\ Len(cl[c].positions) = Len(cl[c].atom_ids)
                  /\ cl[c].num_atoms = Len(cl[c].atom_ids)

C1_Witness ==
  /\ last.op \in {"dig_hole", "delete_atoms_in_region", "delete_atoms_in_cnt"}
  /\ \E c \in CIds : cl[c].num_atoms > 0 /\ cl[c].num_atoms < cl[c].atom_ids[cl[c].num_atoms]

\* C2: under box operations only, every coordinate of every atom of every
\* cluster a box holds lies in [-size/2, +size/2) of its axis, whatever the
\* sign and magnitude of the coordinates the cluster came with.
InDomain(x, size) == -size <= 2 * x /\ 2 * x < size

C2_HeldAtomsInDomain ==
  \A b \in BoxIds : \A c \in Held(b) : \A i \in 1..Len(cl[c].positions) : \A k \in 1..3 :
     InDomain(cl[c].positions[i][k], boxes[b].box_size[k])

\* a held atom sits on the lower face after a wrap of a cluster that came
\* from outside the domain
C2_Witness ==
  /\ last.op \in {"add_cluster", "wrap_cluster", "wrap_all"}
  /\ \E b \in BoxIds : \E c \in Held(b) : \E i \in 1..Len(cl[c].positions) : \E k \in 1..3 :
       2 * cl[c].positions[i][k] = -boxes[b].box_size[k]

\* C3: a delete_atoms(mask) call leaves exactly the atoms whose mask entry is
\* false, in their original order, each position with its id, and sets
\* num_atoms to the number of survivors; no other cluster changes.
C3_DeleteAtomsPost ==
  [][last'.op = "delete_atoms" =>
       LET c == last'.c
           K == {i \in 1..Len(last'.arg) : ~last'.arg[i]}
       IN  /\ IsStableRemainder(cl[c], cl'[c], K)
           /\ \A o \in CIds \ {c} : cl'[o] = cl[o]]_vars

C3_Witness ==
  /\ last.op = "delete_atoms"
  /\ CountTrue(last.arg) > 0
  /\ cl[last.c].num_atoms > 1


\* Exact comparison of sums of products too large for one machine integer: a
\* number is three limbs <<l0, l1, l2>> standing for l0 + l1 * 10^4 + l2 * 10^8.
Limbs(a, b) ==
  LET a0 == a % 10000
      a1 == a \div 10000
      b0 == b % 10000
      b1 == b \div 10000
  IN  <<a0 * b0, a1 * b0 + a0 * b1, a1 * b1>>

LimbsAdd(x, y) == <<x[1] + y[1], x[2] + y[2], x[3] + y[3]>>

\* the digits, most significant first
LimbsNorm(x) ==
  LET m == x[2] + (x[1] \div 10000)
  IN  <<x[3] + (m \div 10000), m % 10000, x[1] % 10000>>

LimbsLeq(x, y) ==
  LET u == LimbsNorm(x)
      w == LimbsNorm(y)
  IN  \/ u[1] < w[1]
      \/ u[1] = w[1] /\ u[2] < w[2]
      \/ u[1] = w[1] /\ u[2] = w[2] /\ u[3] <= w[3]

SquareLimbs(a) == Limbs(Abs(a), Abs(a))

\* The cylinder of a tube, stated on the cross product: with v = end - start
\* and rel = pos - start, the projection on the axis is rel.v / |v| and the
\* distance to the axis line is |rel x v| / |v|.  The atom is in the cylinder
\* iff  -tol <= projection <= |v| + tol  and  distance <= r.
InCylinder(pos, start, end, r) ==
  LET v   == VSub(end, start)
      V   == Norm2(v)
      rel == VSub(pos, start)
      P   == Dot(rel, v)
      x   == Cross(rel, v)
      tV  == Limbs(AxialTol * AxialTol, V)
  IN  /\ V > 0
      /\ (P < 0 => LimbsLeq(SquareLimbs(P), tV))
      /\ (P > V => LimbsLeq(SquareLimbs(P - V), tV))
      /\ LimbsLeq(LimbsAdd(LimbsAdd(SquareLimbs(x[1]), SquareLimbs(x[2])), SquareLimbs(x[3])),
                  Limbs(r * r, V))

\* C4: delete_atoms_in_cnt(target, tube) deletes an atom of target iff its
\* projection on the stored axis, from the start point, lies in
\* [-0.01, L + 0.01] and its distance to the axis line is <= the tube radius;
\* the other atoms survive in order with their ids, and no other cluster
\* changes.
C4_DeleteInCntPost ==
  [][(last'.op = "delete_atoms_in_cnt" /\ last'.result = "ok") =>
       LET c    == last'.c
           t    == last'.arg
           K    == {i \in 1..Len(cl[c].positions) :
                      ~InCylinder(cl[c].positions[i], cl[t].axis[1], cl[t].axis[2], cl[t].r)}
       IN  /\ IsStableRemainder(cl[c], cl'[c], K)
           /\ \A o \in CIds \ {c} : cl'[o] = cl[o]]_vars

\* the sheet lost some atoms to the tube's cylinder and kept others
C4_Witness ==
  /\ last.op = "delete_atoms_in_cnt"
  /\ last.result = "ok"
  /\ last.c = "g"
  /\ steps = 2
  /\ cl["g"].num_atoms \in 1..3
  /\ \A i \in 1..Len(cl["g"].positions) :
       ~InCylinder(cl["g"].positions[i], cl[last.arg].axis[1], cl[last.arg].axis[2], cl[last.arg].r)

\* C5: a successful add_cluster(c) appends c as the last element of the box's
\* list, leaves c's atoms wrapped into the domain (each coordinate moved by a
\* whole number of box lengths into [-size/2, size/2)), and for a tube stores
\* as c.axis the axis detected on the wrapped positions, whatever axis c had;
\* a cluster that is not a tube gets no axis, and no other cluster and no
\* other box changes.
C5_AddClusterPost ==
  [][(last'.op = "add_cluster" /\ last'.result = "ok") =>
       LET b    == last'.b
           c    == last'.c
           size == boxes[b].box_size
           det  == get_nanotube_axis(size, cl'[c])
       IN  /\ boxes' = [boxes EXCEPT ![b] = [@ EXCEPT !.clusters = Append(@, c)]]
           /\ Len(cl'[c].positions) = Len(cl[c].positions)
           /\ \A i \in 1..Len(cl[c].positions) : \A k \in 1..3 :
                /\ InDomain(cl'[c].positions[i][k], size[k])
                /\ (cl'[c].positions[i][k] - cl[c].positions[i][k]) % size[k] = 0
           /\ cl'[c].atom_ids = cl[c].atom_ids
           /\ cl'[c].num_atoms = cl[c].num_atoms
           /\ IF cl[c].kind = "CarbonNanotube"
              THEN det.ok /\ cl'[c].axis = <<det.start, det.end>>
              ELSE cl'[c].axis = NoAxis
           /\ \A o \in CIds \ {c} : cl'[o] = cl[o]]_vars

\* the tube, moved up along z, is added a second time to the box that holds
\* it: it came with an axis and carries the axis of its new place
C5_Witness ==
  /\ last.op = "add_cluster"
  /\ last.result = "ok"
  /\ last.c = "t"
  /\ steps = 3
  /\ boxes[last.b].clusters = <<"t", "t">>
  /\ \A i \in 1..Len(cl["t"].positions) : cl["t"].positions[i][3] >= 0
  /\ cl["t"].axis # NoAxis
  /\ cl["t"].axis[1][3] >= 0

\* the length of the shortest image of a coordinate difference
ImageAbs(d, size) == IF d % size < size - (d % size) THEN d % size ELSE size - (d % size)

Bonded(positions, i, j, box_size) ==
  LET d == VSub(positions[j], positions[i])
  IN  ImageAbs(d[1], box_size[1]) * ImageAbs(d[1], box_size[1])
      + ImageAbs(d[2], box_size[2]) * ImageAbs(d[2], box_size[2])
      + ImageAbs(d[3], box_size[3]) * ImageAbs(d[3], box_size[3])
      < BondCutoff * BondCutoff

\* the atoms with exactly two other atoms in bonding distance
EndAtoms(positions, box_size) ==
  {i \in 1..Len(positions) :
     Cardinality({j \in 1..Len(positions) : j # i /\ Bonded(positions, i, j, box_size)}) = 2}

\* some end group (below / above the z-midpoint of the end atoms) has not 2n atoms
EndGroupsMalformed(positions, box_size, n) ==
  LET E == EndAtoms(positions, box_size)
  IN  \/ E = {}
      \/ LET zs    == {positions[i][3] : i \in E}
             zmin  == CHOOSE z \in zs : \A y \in zs : z <= y
             zmax  == CHOOSE z \in zs : \A y \in zs : z >= y
         IN  \/ Cardinality({i \in E : 2 * positions[i][3] < zmin + zmax}) # 2 * n
             \/ Cardinality({i \in E : 2 * positions[i][3] > zmin + zmax}) # 2 * n

\* C6: axis detection fails with the validation error exactly when the end
\* atoms below the z-midpoint or those above it are not 2n in number; when
\* add_cluster of a tube fails so, the tube's axis attribute is as before the
\* call (not set, or the axis it had).
C6_DetectionValidates ==
  [][(last'.op = "add_cluster" /\ cl[last'.c].kind = "CarbonNanotube") =>
       LET c == last'.c
       IN  /\ (last'.result = "ValueError") <=>
                EndGroupsMalformed(cl'[c].positions, boxes[last'.b].box_size, cl[c].n)
           /\ last'.result = "ValueError" => cl'[c].axis = cl[c].axis]_vars

\* a tube that carries an axis fails to be added to a box too small for it
C6_Witness ==
  /\ last.op = "add_cluster"
  /\ last.result = "ValueError"
  /\ cl[last.c].kind = "CarbonNanotube"
  /\ cl[last.c].axis # NoAxis

\* the stored axis is what detection computes from the tube's atoms in box b
AxisCurrent(b, t) ==
  LET det == get_nanotube_axis(boxes[b].box_size, cl[t])
  IN  det.ok /\ cl[t].axis = <<det.start, det.end>>

\* C7 as claimed: a stored axis always equals the axis detection computes from
\* the tube's current atoms, in every box that holds the tube.
C7_AxisTracksTube ==
  \A b \in BoxIds : \A t \in Held(b) : cl[t].axis # NoAxis => AxisCurrent(b, t)

\* C7 as amended: the axis attribute changes only in a successful add_cluster
\* of that tube, which stores the axis detected on the atoms as wrapped into
\* that box; translate, rotate, wrap and every deletion leave it as it is.
C7_AxisSetOnlyByAdd ==
  [][\A c \in CIds :
       cl'[c].axis # cl[c].axis =>
         /\ last'.op = "add_cluster"
         /\ last'.c = c
         /\ last'.result = "ok"
         /\ LET det == get_nanotube_axis(boxes[last'.b].box_size, cl'[c])
            IN  det.ok /\ cl'[c].axis = <<det.start, det.end>>]_vars

\* a held tube was moved after its axis was stored, and the axis is stale
C7_Witness ==
  /\ last.op \in {"translate", "rotate"}
  /\ cl[last.c].axis # NoAxis
  /\ \E b \in BoxIds : last.c \in Held(b) /\ ~AxisCurrent(b, last.c)

\* C8 as claimed: no cluster occurs twice in a box's list, no cluster is held
\* by two boxes, and get_all_atom_ids has one entry per atom of a held cluster.
C8_HeldOnce ==
  /\ \A b \in BoxIds : \A i, j \in 1..Len(boxes[b].clusters) :
       i # j => boxes[b].clusters[i] # boxes[b].clusters[j]
  /\ \A b1, b2 \in BoxIds : b1 # b2 => Held(b1) \cap Held(b2) = {}
  /\ \A b \in BoxIds :
       Len(get_all_atom_ids(cl, boxes[b].clusters))
         = SumSeq([k \in 1..Len(boxes[b].clusters) |->
                     IF \E j \in 1..(k - 1) : boxes[b].clusters[j] = boxes[b].clusters[k]
                     THEN 0 ELSE cl[boxes[b].clusters[k]].num_atoms])

SqDist(p, q) == Norm2(VSub(p, q))

\* C9: after dig_hole(c, r) no remaining atom is within distance r of c, the
\* atoms farther than r remain in order with their ids, and the number
\* reported as removed is the atom count before minus the count after.
C9_DigHolePost ==
  [][last'.op = "dig_hole" =>
       LET g      == last'.c
           center == last'.arg[1][1]
           r      == last'.arg[1][2]
           Far    == {i \in 1..Len(cl[g].positions) :
                        r < 0 \/ SqDist(cl[g].positions[i], center) > r * r}
       IN  /\ IsStableRemainder(cl[g], cl'[g], Far)
           /\ \A k \in 1..Len(cl'[g].positions) :
                SqDist(cl'[g].positions[k], center) > r * r
           /\ last'.arg[2][1] = cl[g].num_atoms - cl'[g].num_atoms
           /\ last'.arg[2][2] = cl'[g].num_atoms]_vars

C9_Witness ==
  /\ last.op = "dig_hole"
  /\ last.arg[2][1] > 0
  /\ cl[last.c].num_atoms > 0

\* C10: delete_atoms_in_region(axis, min, max, cluster) deletes exactly the
\* atoms whose coordinate on the axis lies in [min, max], both ends included;
\* with a cluster given only that cluster changes, with none given the rule
\* is applied to every cluster the box holds and to no other.
C10_DeleteInRegionPost ==
  [][last'.op = "delete_atoms_in_region" =>
       LET axis    == last'.arg[1] + 1
           lo      == last'.arg[2]
           hi      == last'.arg[3]
           targets == IF last'.c # NoCluster THEN {last'.c} ELSE Held(last'.b)
           Out(c)  == {i \in 1..Len(cl[c].positions) :
                         cl[c].positions[i][axis] < lo \/ cl[c].positions[i][axis] > hi}
       IN  /\ \A c \in targets : IsStableRemainder(cl[c], cl'[c], Out(c))
           /\ \A c \in targets : cl'[c].axis = cl[c].axis
           /\ \A c \in CIds \ targets : cl'[c] = cl[c]
           /\ boxes' = boxes]_vars

\* no cluster was named: the sheet lost every atom (all on the upper bound)
\* and the tube its lower ring (on the lower bound)
C10_Witness ==
  /\ last.op = "delete_atoms_in_region"
  /\ last.c = NoCluster
  /\ steps = 3
  /\ Held(last.b) = {"g", "t"}
  /\ cl["g"].num_atoms = 0
  /\ cl["t"].num_atoms > 0
  /\ \A i \in 1..Len(cl["t"].positions) : cl["t"].positions[i][3] > 0


\* the number of export entries before those of the k-th listed cluster
Offset(b, k) == SumSeq([j \in 1..(k - 1) |-> cl[boxes[b].clusters[j]].num_atoms])

\* C11 as claimed: in every box state get_all_positions and get_all_atom_ids
\* return the concatenation, in list order, of the held clusters' positions
\* and ids in each cluster's own order; both have as many entries as the
\* listed clusters have atoms, so the k-th position goes with the k-th id.
C11_ExportConcatenates ==
  [][last'.op \in {"get_all_positions", "get_all_atom_ids"} =>
       LET b    == last'.b
           list == boxes[b].clusters
       IN  /\ last'.result = "ok"
           /\ Len(last'.arg) = Offset(b, Len(list) + 1)
           /\ \A k \in 1..Len(list) : \A i \in 1..cl[list[k]].num_atoms :
                last'.arg[Offset(b, k) + i] =
                  IF last'.op = "get_all_positions"
                  THEN cl[list[k]].positions[i]
                  ELSE cl[list[k]].atom_ids[i]]_vars


\* the sheets just constructed: by the last call, or at the start
FreshSheets ==
  IF last.op = "Graphene" THEN {last.c}
  ELSE IF last.op = "init" THEN {c \in CIds : cl[c].kind = "Graphene"}
  ELSE {}

\* C12: Graphene(nx, ny) holds exactly 4 nx ny atoms (positions and ids),
\* with the ids 1..4 nx ny in order.
C12_SheetAtomCount ==
  \A c \in FreshSheets :
     LET N == 4 * cl[c].nx * cl[c].ny
     IN  /\ Len(cl[c].positions) = N
         /\ cl[c].num_atoms = N
         /\ cl[c].atom_ids = [k \in 1..N |-> k]

\* Graphene(2, 2) has just been built, with 16 atoms
C12_Witness ==
  /\ last.op = "Graphene"
  /\ cl[last.c].nx = 2
  /\ cl[last.c].ny = 2
  /\ cl[last.c].num_atoms = 16

\* the atom of cell (i, j), basis atom b, for bond length d
CellAtom(i, j, b, d) ==
  <<(2 * i + j + b) * Sqrt3Half(d), j * ((3 * d) \div 2) + b * (d \div 2), 0>>

\* C13 as claimed: the sheet holds the two atoms of each of the nx x ny cells
\* (i, j), i < nx, j < ny, and no other atom, x index outermost, ids in
\* emission order.
C13_CellsNxByNy ==
  \A c \in FreshSheets :
     LET nx == cl[c].nx
         ny == cl[c].ny
     IN  /\ Len(cl[c].positions) = 2 * nx * ny
         /\ \A i \in 0..(nx - 1) : \A j \in 0..(ny - 1) : \A b \in 0..1 :
              cl[c].positions[2 * (i * ny + j) + b + 1] = CellAtom(i, j, b, cl[c].bond_length)

\* C13 as amended: the sheet holds the two atoms of each of the nx x 2 ny
\* cells (i, j), i < nx, j < 2 ny, and no other atom; cells are visited with
\* the x index outermost and the y index inner, and the k-th emitted atom has
\* id k.
C13_CellsNxBy2Ny ==
  \A c \in FreshSheets :
     LET nx == cl[c].nx
         ny == cl[c].ny
     IN  /\ Len(cl[c].positions) = 4 * nx * ny
         /\ Len(cl[c].atom_ids) = 4 * nx * ny
         /\ \A i \in 0..(nx - 1) : \A j \in 0..(2 * ny - 1) : \A b \in 0..1 :
              cl[c].positions[2 * (i * 2 * ny + j) + b + 1] = CellAtom(i, j, b, cl[c].bond_length)
         /\ \A k \in 1..(4 * nx * ny) : cl[c].atom_ids[k] = k

\* a sheet of more than one column and more than one pair of rows was built
C13_Witness ==
  /\ last.op = "Graphene"
  /\ cl[last.c].nx = 2
  /\ cl[last.c].ny = 2
  /\ cl[last.c].positions[5] = CellAtom(0, 2, 0, cl[last.c].bond_length)
  /\ cl[last.c].positions[9] = CellAtom(1, 0, 0, cl[last.c].bond_length)


\* C15: for a freshly built sheet Graphene(nx, ny, d), init_from_graphene
\* makes a box whose z size is the vacuum, whose x size is (max x) - (min x
\* among the atoms with the y of the rightmost atom) + sqrt(3) d, which is
\* nx sqrt(3) d, and whose y size is the y extent + d, which is 3 d ny; the
\* box is centred at the origin (the sheet lies in [-size/2, size/2) after
\* the call) and holds the sheet as its only cluster.
C15_BoxFitsSheet ==
  [][(last'.op = "init_from_graphene" /\ last'.result = "ok" /\ last'.c \in FreshSheets) =>
       LET c     == last'.c
           g     == cl[c]
           size  == boxes'[last'.b].box_size
           N     == Len(g.positions)
           right == CHOOSE i \in 1..N : \A k \in 1..N : g.positions[k][1] <= g.positions[i][1]
           row   == {i \in 1..N : g.positions[i][2] = g.positions[right][2]}
           left  == CHOOSE i \in row : \A k \in row : g.positions[i][1] <= g.positions[k][1]
           bb    == get_bounding_box(g)
       IN  /\ Len(boxes') = Len(boxes) + 1
           /\ last'.b = Len(boxes')
           /\ size[3] = last'.arg
           /\ size[1] = g.positions[right][1] - g.positions[left][1] + 2 * Sqrt3Half(g.bond_length)
           /\ size[1] = g.nx * 2 * Sqrt3Half(g.bond_length)
           /\ size[2] = bb[2][2] - bb[1][2] + g.bond_length
           /\ size[2] = 3 * g.bond_length * g.ny
           /\ boxes'[last'.b].clusters = <<c>>
           /\ \A i \in 1..Len(cl'[c].positions) : \A k \in 1..3 :
                InDomain(cl'[c].positions[i][k], size[k])]_vars

\* Graphene(2, 2, d) was built and then boxed
C15_Witness ==
  /\ last.op = "init_from_graphene"
  /\ last.result = "ok"
  /\ steps = 2
  /\ cl[last.c].nx = 2
  /\ cl[last.c].ny = 2
  /\ boxes[last.b].clusters = <<last.c>>
  /\ boxes[last.b].box_size =
       <<4 * Sqrt3Half(cl[last.c].bond_length), 6 * cl[last.c].bond_length, last.arg>>

\* C16 as claimed: init_from_graphene on a freshly built sheet leaves every
\* atom of the sheet where it was.
C16_InitWrapIsNoOp ==
  [][(last'.op = "init_from_graphene" /\ last'.result = "ok" /\ last'.c \in FreshSheets) =>
       cl'[last'.c].positions = cl[last'.c].positions]_vars


\* C17: wrap_cluster and wrap_all are idempotent: they leave every position
\* in the domain of the box, and a cluster whose positions are all in the
\* domain already (one wrapped into this box before) keeps every position;
\* a wrap moves each coordinate by whole box lengths only and never changes
\* the ids, the atom count or the atom order, nor any other cluster.
C17_WrapIdempotent ==
  [][last'.op \in {"wrap_cluster", "wrap_all"} =>
       LET size    == boxes[last'.b].box_size
           targets == IF last'.op = "wrap_cluster" THEN {last'.c} ELSE Held(last'.b)
           In(ps)  == \A i \in 1..Len(ps) : \A k \in 1..3 : InDomain(ps[i][k], size[k])
       IN  /\ \A c \in targets :
                /\ In(cl'[c].positions)
                /\ In(cl[c].positions) => cl'[c].positions = cl[c].positions
                /\ Len(cl'[c].positions) = Len(cl[c].positions)
                /\ \A i \in 1..Len(cl[c].positions) : \A k \in 1..3 :
                     (cl'[c].positions[i][k] - cl[c].positions[i][k]) % size[k] = 0
                /\ cl'[c].atom_ids = cl[c].atom_ids
                /\ cl'[c].num_atoms = cl[c].num_atoms
           /\ \A o \in CIds \ targets : cl'[o] = cl[o]]_vars

\* a cluster that add_cluster had wrapped into the box, with an atom on the
\* lower face, was wrapped into the same box again
C17_Witness ==
  /\ last.op \in {"wrap_cluster", "wrap_all"}
  /\ steps = 2
  /\ \E c \in Held(last.b) :
       /\ last.op = "wrap_cluster" => last.c = c
       /\ \E i \in 1..Len(cl[c].positions) : \E k \in 1..3 :
            2 * cl[c].positions[i][k] = -boxes[last.b].box_size[k]


\* C14 as claimed: CarbonNanotube(n, p) holds exactly 4 n p atoms, no two of
\* them at the same position.
C14_TubeAtomCount ==
  last.op = "CarbonNanotube" =>
    LET t == cl[last.c]
    IN  /\ t.num_atoms = 4 * last.arg[1] * last.arg[2]
        /\ Len(t.positions) = 4 * last.arg[1] * last.arg[2]
        /\ \A i, j \in 1..Len(t.positions) : i # j => t.positions[i] # t.positions[j]

\* the tubes just constructed: by the last call, or at the start
FreshTubes ==
  IF last.op = "CarbonNanotube" THEN {last.c}
  ELSE IF last.op = "init" THEN {c \in CIds : cl[c].kind = "CarbonNanotube"}
  ELSE {}

\* the box exceeds the bounding box of c by the vacuum margin on every side
Roomy(box_size, c) ==
  LET bb == get_bounding_box(c)
  IN  \A k \in 1..3 : /\ 2 * (bb[1][k] - TubeVacuum) >= -box_size[k]
                      /\ 2 * (bb[2][k] + TubeVacuum) <= box_size[k]

\* C18 as claimed: adding a freshly built tube to a box that exceeds its
\* bounding box by a vacuum margin on every side succeeds: the end atoms
\* split into two groups of 2n, no error is raised and an axis is attached.
C18_FreshTubeAccepted ==
  [][(last'.op = "add_cluster" /\ last'.c \in FreshTubes
        /\ Roomy(boxes[last'.b].box_size, cl[last'.c])) =>
       /\ last'.result = "ok"
       /\ cl'[last'.c].axis # NoAxis
       /\ ~EndGroupsMalformed(cl'[last'.c].positions, boxes[last'.b].box_size, cl[last'.c].n)]_vars

\* C19 as claimed: for a freshly built tube (its axis along z) in a roomy box
\* the detected end points span a vector v with |v.z| / |v| > 0.99, i.e.
\* 10000 v_z^2 > 9801 |v|^2.
C19_AxisParallelToZ ==
  [][(last'.op = "add_cluster" /\ last'.result = "ok" /\ last'.c \in FreshTubes
        /\ Roomy(boxes[last'.b].box_size, cl[last'.c])) =>
       LET v == VSub(cl'[last'.c].axis[2], cl'[last'.c].axis[1])
       IN  ~LimbsLeq(Limbs(10000, v[3] * v[3]), Limbs(9801, Norm2(v)))]_vars

\* the box is larger than the bounding box of c in every dimension
LargerThan(box_size, c) ==
  LET bb == get_bounding_box(c)
  IN  \A k \in 1..3 : bb[2][k] - bb[1][k] < box_size[k]

\* C20 as claimed: after a successful add_cluster of a tube, built and moved
\* rigidly, to a box larger than the tube in every dimension, every atom of
\* the tube is at the tube radius from the line through the stored end points
\* (to within 0.03, the resolution of the grid) and projects between them (to
\* within 0.03).
C20_AxisIsCenterline ==
  [][(last'.op = "add_cluster" /\ last'.result = "ok"
        /\ cl[last'.c].kind = "CarbonNanotube"
        /\ LargerThan(boxes[last'.b].box_size, cl[last'.c])) =>
       LET t  == cl'[last'.c]
           v  == VSub(t.axis[2], t.axis[1])
           V  == Norm2(v)
       IN  /\ V > 0
           /\ \A i \in 1..Len(t.positions) :
                LET rel == VSub(t.positions[i], t.axis[1])
                    P   == Dot(rel, v)
                    x   == Cross(rel, v)
                    xx  == LimbsAdd(LimbsAdd(SquareLimbs(x[1]), SquareLimbs(x[2])),
                                    SquareLimbs(x[3]))
                IN  /\ LimbsLeq(Limbs((t.r - 3) * (t.r - 3), V), xx)
                    /\ LimbsLeq(xx, Limbs((t.r + 3) * (t.r + 3), V))
                    /\ (P < 0 => LimbsLeq(SquareLimbs(P), Limbs(9, V)))
                    /\ (P > V => LimbsLeq(SquareLimbs(P - V), Limbs(9, V)))]_vars


\* s is t with some entries left out
RECURSIVE IsSubsequence(_, _)
IsSubsequence(s, t) ==
  IF s = <<>> THEN TRUE
  ELSE IF t = <<>> THEN FALSE
  ELSE IF Head(s) = Head(t) THEN IsSubsequence(Tail(s), Tail(t))
  ELSE IsSubsequence(s, Tail(t))

\* C21: a generated cluster has the ids 1..N; every translate, rotate, wrap
\* and deletion call leaves each cluster with pairwise distinct ids that are
\* a subsequence of the ids it had before the call (hence of those it had at
\* creation), and with an atom count that has not grown.
C21_IdsStayUnique ==
  /\ \A c \in CIds : cl[c].atom_ids = [k \in 1..Len(cl[c].positions) |-> k]
  /\ [][\A c \in CIds :
          /\ IsSubsequence(cl'[c].atom_ids, cl[c].atom_ids)
          /\ \A i, j \in 1..Len(cl'[c].atom_ids) :
               i # j => cl'[c].atom_ids[i] # cl'[c].atom_ids[j]
          /\ cl'[c].num_atoms <= cl[c].num_atoms]_vars

\* after two deletions of different kinds a cluster is left with ids that
\* are no longer contiguous
C21_Witness ==
  /\ last.op \in {"delete_atoms_in_region", "delete_atoms_in_cnt", "delete_inner_atoms"}
  /\ steps = 3
  /\ \E c \in CIds :
       /\ cl[c].num_atoms >= 2
       /\ \E k \in 1..(cl[c].num_atoms - 1) : cl[c].atom_ids[k + 1] > cl[c].atom_ids[k] + 1
       /\ cl[c].atom_ids[1] > 1


\* the clusters a deletion call is aimed at
Targets(call) ==
  CASE call.op = "delete_inner_atoms" -> {call.arg[1][k] : k \in 1..Len(call.arg[1])}
    [] call.op = "delete_atoms_in_region" /\ call.c = NoCluster -> Held(call.b)
    [] OTHER -> {call.c}

\* atom i of cluster c satisfies the deletion condition of the call
Matches(call, c, i) ==
  LET pos == cl[c].positions[i]
  IN  CASE call.op = "dig_hole" ->
             call.arg[1][2] >= 0 /\ SqDist(pos, call.arg[1][1]) <= call.arg[1][2] * call.arg[1][2]
        [] call.op = "delete_atoms_in_region" ->
             pos[call.arg[1] + 1] >= call.arg[2] /\ pos[call.arg[1] + 1] <= call.arg[3]
        [] call.op = "delete_atoms_in_cnt" ->
             InCylinder(pos, cl[call.arg].axis[1], cl[call.arg].axis[2], cl[call.arg].r)
        [] call.op = "delete_inner_atoms" ->
             \E j \in 1..Len(cl[call.c].positions) :
                SqDist(pos, cl[call.c].positions[j]) < call.arg[2] * call.arg[2]
        [] OTHER -> FALSE

\* C22 as claimed: a dig_hole, delete_atoms_in_region, delete_atoms_in_cnt
\* (for a tube that carries an axis) or delete_inner_atoms call in which no
\* atom of the targeted clusters satisfies the deletion condition raises no
\* error and leaves every targeted cluster exactly as it was.
C22_ZeroMatchIsNoOp ==
  [][(/\ last'.op \in {"dig_hole", "delete_atoms_in_region", "delete_atoms_in_cnt",
                       "delete_inner_atoms"}
      /\ last'.op = "delete_atoms_in_cnt" => cl[last'.arg].axis # NoAxis
      /\ \A c \in Targets(last') : \A i \in 1..Len(cl[c].positions) : ~Matches(last', c, i)) =>
       /\ last'.result = "ok"
       /\ \A c \in Targets(last') : cl'[c] = cl[c]]_vars


\* a structurally valid cluster of zero atoms
IsEmpty(c) == c.positions = <<>> /\ c.atom_ids = <<>> /\ c.num_atoms = 0

\* the call acts on cluster c or on a box that holds it
ActsOn(call, c) ==
  \/ call.op \in {"translate", "dig_hole", "wrap_cluster"} /\ call.c = c
  \/ call.op = "delete_atoms_in_region"
       /\ (call.c = c \/ (call.c = NoCluster /\ c \in Held(call.b)))
  \/ call.op = "delete_atoms_in_cnt" /\ call.c = c /\ cl[call.arg].axis # NoAxis
  \/ call.op \in {"wrap_all", "get_all_positions", "get_all_atom_ids"} /\ c \in Held(call.b)

\* C23: a dig_hole whose radius reaches every atom of the sheet leaves it with
\* no position, no id and num_atoms 0; and every translate, dig_hole, wrap,
\* delete_atoms_in_region, delete_atoms_in_cnt (the empty cluster as target,
\* the tube carrying an axis), get_all_positions and get_all_atom_ids call on
\* an empty cluster or on a box that holds it succeeds and leaves it empty.
C23_EmptySheetIsValid ==
  [][/\ (last'.op = "dig_hole"
           /\ last'.arg[1][2] >= 0
           /\ \A i \in 1..Len(cl[last'.c].positions) :
                SqDist(cl[last'.c].positions[i], last'.arg[1][1])
                  <= last'.arg[1][2] * last'.arg[1][2]) =>
          IsEmpty(cl'[last'.c])
     /\ \A c \in CIds :
          (IsEmpty(cl[c]) /\ ActsOn(last', c)) =>
            /\ last'.result = "ok"
            /\ IsEmpty(cl'[c])]_vars

\* the sheet, held by a box, was emptied by dig_hole and then exported
C23_Witness ==
  /\ last.op = "get_all_positions"
  /\ last.result = "ok"
  /\ steps = 3
  /\ boxes[last.b].clusters = <<"g">>
  /\ IsEmpty(cl["g"])
  /\ last.arg = <<>>


\* C24: get_bounding_box returns, per axis, the least and the greatest
\* coordinate among the atoms the cluster holds at the time of the call (so
\* after a deletion, among the survivors); on a cluster of zero atoms it
\* raises an error and returns nothing; in both cases no cluster changes.
C24_BoundingBoxOfSurvivors ==
  [][last'.op = "get_bounding_box" =>
       LET ps == cl[last'.c].positions
       IN  /\ cl' = cl
           /\ IF Len(ps) = 0
              THEN last'.result = "ValueError" /\ last'.arg = <<>>
              ELSE /\ last'.result = "ok"
                   /\ \A k \in 1..3 :
                        /\ \A i \in 1..Len(ps) :
                             last'.arg[1][k] <= ps[i][k] /\ ps[i][k] <= last'.arg[2][k]
                        /\ \E i \in 1..Len(ps) : ps[i][k] = last'.arg[1][k]
                        /\ \E i \in 1..Len(ps) : ps[i][k] = last'.arg[2][k]]_vars

\* the sheet lost its first atom, the one at the lower corner, and the box
\* returned starts at the next atom
C24_Witness ==
  /\ last.op = "get_bounding_box"
  /\ last.result = "ok"
  /\ last.c = "g"
  /\ cl["g"].atom_ids = <<2, 3, 4>>
  /\ last.arg[1] = <<123, 71, 0>>


\* every atom of the cluster lies in the plane z = 0
ZFlat(c) == \A i \in 1..Len(c.positions) : c.positions[i][3] = 0

\* C25: every atom of a generated sheet has z = 0, and a flat sheet is still
\* flat after dig_hole, after init_from_graphene (whatever the vacuum), and
\* after add_cluster and wrap_all of a box.
C25_SheetStaysFlat ==
  /\ \A c \in CIds : cl[c].kind = "Graphene" => ZFlat(cl[c])
  /\ [][/\ last'.op = "Graphene" => ZFlat(cl'[last'.c])
        /\ (last'.op \in {"dig_hole", "init_from_graphene", "add_cluster"}
              /\ ZFlat(cl[last'.c])) => ZFlat(cl'[last'.c])
        /\ last'.op = "wrap_all" =>
             \A c \in Held(last'.b) : ZFlat(cl[c]) => ZFlat(cl'[c])]_vars

\* a sheet that lost an atom to dig_hole was boxed by init_from_graphene,
\* wrapped again by that box, and is flat
C25_Witness ==
  /\ last.op = "wrap_all"
  /\ steps = 3
  /\ last.b = 2
  /\ boxes[2].clusters = <<"g">>
  /\ cl["g"].num_atoms = 3
  /\ ZFlat(cl["g"])


\* the axial replica (the k of the generator's loop) of raw candidate e
Replica(n, e) == (e - 1) \div (8 * n)

C27_InnerAtomsDeleted ==
  [][last'.op = "delete_inner_atoms" =>
       LET t      == last'.c
           listed == {last'.arg[1][k] : k \in 1..Len(last'.arg[1])}
           tol    == last'.arg[2]
           Far(c) == {i \in 1..Len(cl[c].positions) :
                        \A j \in 1..Len(cl[t].positions) :
                           tol <= 0 \/ SqDist(cl[c].positions[i], cl[t].positions[j]) >= tol * tol}
       IN  /\ \A c \in listed : IsStableRemainder(cl[c], cl'[c], Far(c))
           /\ \A c \in CIds \ listed : cl'[c] = cl[c]]_vars


\* C28: when add_cluster(tube) fails with the end-atom validation error, the
\* tube is the last element of the box's list, its positions are the wrapped
\* ones and its axis attribute is as before the call; no call removes a
\* cluster from a list, and every successful get_all_positions and
\* get_all_atom_ids returns the atoms of every listed cluster, the rejected
\* tube included, at the place of the cluster in the list.
C28_RejectedTubeIsHeld ==
  [][/\ (last'.op = "add_cluster" /\ last'.result = "ValueError") =>
          LET b == last'.b
              c == last'.c
          IN  /\ cl[c].kind = "CarbonNanotube"
              /\ boxes'[b].clusters = Append(boxes[b].clusters, c)
              /\ cl'[c].positions =
                   [i \in 1..Len(cl[c].positions) |->
                      WrapPoint(cl[c].positions[i], boxes[b].box_size)]
              /\ \A i \in 1..Len(cl'[c].positions) : \A k \in 1..3 :
                   InDomain(cl'[c].positions[i][k], boxes[b].box_size[k])
              /\ cl'[c].axis = cl[c].axis
     /\ \A b \in BoxIds :
          /\ Len(boxes'[b].clusters) >= Len(boxes[b].clusters)
          /\ SubSeq(boxes'[b].clusters, 1, Len(boxes[b].clusters)) = boxes[b].clusters
     /\ (last'.op \in {"get_all_positions", "get_all_atom_ids"} /\ last'.result = "ok") =>
          LET list == boxes[last'.b].clusters
          IN  \A k \in 1..Len(list) : \A i \in 1..cl[list[k]].num_atoms :
                 last'.arg[Offset(last'.b, k) + i] =
                   IF last'.op = "get_all_positions"
                   THEN cl[list[k]].positions[i]
                   ELSE cl[list[k]].atom_ids[i]]_vars

\* the tube was rejected by the box, and the export that follows lists its
\* atoms although it has no axis
C28_Witness ==
  /\ last.op = "get_all_positions"
  /\ last.result = "ok"
  /\ steps = 2
  /\ boxes[last.b].clusters = <<"t">>
  /\ cl["t"].axis = NoAxis
  /\ cl["t"].num_atoms > 0
  /\ last.arg = cl["t"].positions


\* the list entries of box b whose cluster is not empty and has the ids
\* 1..N its generator gave it
FreshEntries(b) ==
  {k \in 1..Len(boxes[b].clusters) :
     LET c == cl[boxes[b].clusters[k]]
     IN  c.num_atoms > 0 /\ c.atom_ids = [i \in 1..c.num_atoms |-> i]}

\* C29: every generated cluster numbers its atoms from 1, add_cluster keeps
\* the ids as they are, and get_all_atom_ids holds the id 1 once for every
\* non-empty freshly generated cluster in the list; so for a box with two or
\* more of them the exported ids repeat.
C29_IdsRepeatAcrossClusters ==
  /\ \A c \in CIds : cl[c].atom_ids[1] = 1
  /\ [][/\ last'.op = "add_cluster" => cl'[last'.c].atom_ids = cl[last'.c].atom_ids
        /\ last'.op = "get_all_atom_ids" =>
             LET ones == {i \in 1..Len(last'.arg) : last'.arg[i] = 1}
             IN  /\ Cardinality(ones) >= Cardinality(FreshEntries(last'.b))
                 /\ Cardinality(FreshEntries(last'.b)) >= 2 =>
                      \E i, j \in 1..Len(last'.arg) : i < j /\ last'.arg[i] = last'.arg[j]]_vars

\* a box that holds the sheet and the tube, both as generated, was exported:
\* the id 1 occurs twice
C29_Witness ==
  /\ last.op = "get_all_atom_ids"
  /\ steps = 3
  /\ Held(last.b) = {"g", "t"}
  /\ Len(boxes[last.b].clusters) = 2
  /\ FreshEntries(last.b) = {1, 2}
  /\ Cardinality({i \in 1..Len(last.arg) : last.arg[i] = 1}) = 2


\* the squared minimum-image distance of atoms i and j
ImageSqDist(positions, i, j, box_size) ==
  LET d == VSub(positions[j], positions[i])
  IN  ImageAbs(d[1], box_size[1]) * ImageAbs(d[1], box_size[1])
      + ImageAbs(d[2], box_size[2]) * ImageAbs(d[2], box_size[2])
      + ImageAbs(d[3], box_size[3]) * ImageAbs(d[3], box_size[3])

\* C30: after init_from_graphene on a freshly built sheet the sheet has its
\* 4 nx ny atoms, no two at the same place (nor at periodic images of the
\* same place); and for nx >= 2 every atom has exactly three other atoms at
\* minimum-image distance equal to the bond length (to within 0.01, the
\* resolution of the grid) and no other atom within the bonding cutoff.
C30_SheetSeamlesslyPeriodic ==
  [][(last'.op = "init_from_graphene" /\ last'.result = "ok" /\ last'.c \in FreshSheets) =>
       LET g    == cl'[last'.c]
           size == boxes'[last'.b].box_size
           N    == Len(g.positions)
           d    == g.bond_length
           AtBond(i, j) == /\ (d - 1) * (d - 1) <= ImageSqDist(g.positions, i, j, size)
                           /\ ImageSqDist(g.positions, i, j, size) <= (d + 1) * (d + 1)
       IN  /\ N = 4 * g.nx * g.ny
           /\ g.num_atoms = N
           /\ \A i, j \in 1..N : i # j => ImageSqDist(g.positions, i, j, size) > 0
           /\ g.nx >= 2 =>
                \A i \in 1..N :
                   /\ Cardinality({j \in 1..N : j # i /\ AtBond(i, j)}) = 3
                   /\ \A j \in 1..N :
                        (j # i /\ ~AtBond(i, j)) =>
                          ImageSqDist(g.positions, i, j, size) > (d + 1) * (d + 1)]_vars

\* Graphene(2, 2) was built and boxed: atoms were moved by the wrap, and an
\* atom on the lower x face is bonded to one near the upper x face
C30_Witness ==
  /\ last.op = "init_from_graphene"
  /\ last.result = "ok"
  /\ steps = 2
  /\ cl[last.c].nx = 2
  /\ cl[last.c].ny = 2
  /\ cl[last.c].num_atoms = 16
  /\ \E i, j \in 1..16 :
       /\ 2 * cl[last.c].positions[i][1] = -boxes[last.b].box_size[1]
       /\ cl[last.c].positions[j][1] > 0
       /\ ImageSqDist(cl[last.c].positions, i, j, boxes[last.b].box_size)
            <= (cl[last.c].bond_length + 1) * (cl[last.c].bond_length + 1)

=============================================================================
